---- MODULE Spec2Model ----
(***************************************************************************)
(* Model of the text-extraction service of src/so_api.py: the page         *)
(* selection parser parse_page_selection and the request handler           *)
(* read_file (POST /read-pdf/).                                            *)
(*                                                                         *)
(* A Python str is a sequence of one-character strings.  The character     *)
(* U+00B2 (superscript two) is written "sup2" and U+00E9 is written        *)
(* "e_acute".  A value of the pages parameter is a record [t, v]: t is     *)
(* "str" (v the characters), "list" (v the atoms) or "other".  An atom is  *)
(* [t |-> "int", v |-> n], [t |-> "str", v |-> chars] or [t |-> "other"].  *)
(* The value parse_page_selection produces is a record [t, v]: t is "ALL", *)
(* "list" (v the page numbers) or "ValueError" (the call raised).          *)
(***************************************************************************)
EXTENDS Integers, Sequences, FiniteSets, TLC

VARIABLES
  pc,              \* position of the handler
  file_data,       \* the request: [ext, data, pages]
  selected_pages,  \* result of parse_page_selection (line 88)
  temp_file_path,  \* the handler's local: "None" or "path"
  file_exists,     \* the temporary file of this request is on disk
  removes,         \* number of os.remove calls on the temporary file
  total_pages,     \* len(pdf_reader.pages) once obtained, else -1
  todo,            \* pages the extraction loop has still to visit
  text_content,    \* the text assembled so far
  text_results,    \* what ocr_reader.readtext returned
  calls,           \* the external calls made, in order
  extracted,       \* the pages extract_text was invoked on, in order
  raised,          \* the place an exception was first raised at, or "none"
  response         \* [status, body, content, has_total, total_pages]

vars == <<pc, file_data, selected_pages, temp_file_path, file_exists, removes,
          total_pages, todo, text_content, text_results, calls, extracted,
          raised, response>>

(***************************************************************************)
(* Bounds of the model.                                                    *)
(***************************************************************************)
MaxStrLen == 4
MaxListLen == 3
MaxReqStrLen == 3
MaxReqListLen == 2
MaxPages == 3
MaxFragments == 2

(***************************************************************************)
(* Python str and list primitives used by the source.                      *)
(***************************************************************************)
AsciiDigits == <<"0", "1", "2", "3", "4", "5", "6", "7", "8", "9">>

AsciiDigit == {AsciiDigits[i] : i \in 1..10}

\* Characters str.isdigit() accepts and int() rejects (category No).
OtherDigit == {"sup2"}

Whitespace == {" ", "\n"}

DigitVal(c) == (CHOOSE i \in 1..10 : AsciiDigits[i] = c) - 1

\* str.isdigit(): non-empty and every character is a digit character.
isdigit(s) ==
  /\ Len(s) > 0
  /\ \A i \in 1..Len(s) : s[i] \in AsciiDigit \cup OtherDigit

RECURSIVE lstrip(_)
lstrip(s) ==
  IF s # <<>> /\ Head(s) \in Whitespace THEN lstrip(Tail(s)) ELSE s

RECURSIVE rstrip(_)
rstrip(s) ==
  IF s # <<>> /\ s[Len(s)] \in Whitespace
    THEN rstrip(SubSeq(s, 1, Len(s) - 1))
    ELSE s

\* str.strip()
strip(s) == rstrip(lstrip(s))

UpperMap == [c \in {"a", "l", "b", "c", "x", "y", "z"} |->
               CASE c = "a" -> "A" [] c = "l" -> "L" [] c = "b" -> "B"
                 [] c = "c" -> "C" [] c = "x" -> "X" [] c = "y" -> "Y"
                 [] c = "z" -> "Z"]

\* str.upper()
upper(s) ==
  [i \in 1..Len(s) |-> IF s[i] \in DOMAIN UpperMap THEN UpperMap[s[i]] ELSE s[i]]

\* Index of the first occurrence of sep in s, 0 when there is none.
find(s, sep) ==
  IF \E i \in 1..Len(s) : s[i] = sep
    THEN CHOOSE i \in 1..Len(s) : s[i] = sep /\ \A j \in 1..(i - 1) : s[j] # sep
    ELSE 0

\* str.split(sep)
RECURSIVE split(_, _)
split(s, sep) ==
  LET k == find(s, sep)
  IN  IF k = 0
        THEN <<s>>
        ELSE <<SubSeq(s, 1, k - 1)>> \o split(SubSeq(s, k + 1, Len(s)), sep)

RECURSIVE DecimalValue(_)
DecimalValue(s) ==
  IF s = <<>> THEN 0
  ELSE 10 * DecimalValue(SubSeq(s, 1, Len(s) - 1)) + DigitVal(s[Len(s)])

\* int(s): surrounding whitespace is ignored, one sign is allowed, single
\* underscores may separate ASCII digits.  [ok, v]; ok = FALSE is ValueError.
int(s) ==
  LET t == strip(s)
      signed == t # <<>> /\ Head(t) \in {"+", "-"}
      body == IF signed THEN Tail(t) ELSE t
      wellformed ==
        /\ body # <<>>
        /\ \A i \in 1..Len(body) : body[i] \in AsciiDigit \cup {"_"}
        /\ body[1] # "_" /\ body[Len(body)] # "_"
        /\ \A i \in 1..(Len(body) - 1) : ~(body[i] = "_" /\ body[i + 1] = "_")
      digits == SelectSeq(body, LAMBDA c : c \in AsciiDigit)
      magnitude == DecimalValue(digits)
  IN  IF wellformed
        THEN [ok |-> TRUE, v |-> IF signed /\ Head(t) = "-" THEN 0 - magnitude ELSE magnitude]
        ELSE [ok |-> FALSE, v |-> 0]

\* list(range(start, end + 1))
range(start, end) == [i \in 1..(end + 1 - start) |-> start + i - 1]

RECURSIVE SortedSeq(_)
SortedSeq(S) ==
  IF S = {} THEN <<>>
  ELSE LET m == CHOOSE x \in S : \A y \in S : x <= y
       IN  <<m>> \o SortedSeq(S \ {m})

\* sorted(set(result))
sorted_set(result) == SortedSeq({result[i] : i \in 1..Len(result)})

(***************************************************************************)
(* parse_page_selection, src/so_api.py lines 27-81.                        *)
(***************************************************************************)
ALL == [t |-> "ALL", v |-> <<>>]

ValueError == [t |-> "ValueError", v |-> <<>>]

PageList(ps) == [t |-> "list", v |-> ps]

\* Lines 66-73: start, end = map(int, selection.split('-')) inside
\* try/except ValueError.  The pages the range contributes.
RangePages(selection) ==
  LET parts == split(selection, "-")
  IN  IF Len(parts) = 2 /\ int(parts[1]).ok /\ int(parts[2]).ok
        THEN IF int(parts[1]).v <= int(parts[2]).v
               THEN range(int(parts[1]).v, int(parts[2]).v)
               ELSE <<>>
        ELSE <<>>

\* Lines 59-75: what one comma-separated selection appends to result.
\* int(selection) at line 63 is outside the try: its ValueError propagates.
SelectionPages(segment) ==
  LET selection == strip(segment)
  IN  IF isdigit(selection)
        THEN IF int(selection).ok
               THEN PageList(<<int(selection).v>>)
               ELSE ValueError
        ELSE IF \E i \in 1..Len(selection) : selection[i] = "-"
               THEN PageList(RangePages(selection))
               ELSE PageList(<<>>)

\* Lines 42-45: what one atom of a list appends to result.
AtomPages(p) ==
  IF p.t = "int"
    THEN PageList(<<p.v>>)
    ELSE IF p.t = "str" /\ isdigit(p.v)
           THEN IF int(p.v).ok THEN PageList(<<int(p.v).v>>) ELSE ValueError
           ELSE PageList(<<>>)

\* The for loops of lines 41-45 and 58-75: result after all items, or the
\* first exception raised.
RECURSIVE Accumulate(_, _)
Accumulate(contribs, result) ==
  IF contribs = <<>> THEN PageList(result)
  ELSE IF Head(contribs).t = "ValueError" THEN ValueError
  ELSE Accumulate(Tail(contribs), result \o Head(contribs).v)

\* Lines 39-46
ParseList(atoms) ==
  LET r == Accumulate([i \in 1..Len(atoms) |-> AtomPages(atoms[i])], <<>>)
  IN  IF r.t = "ValueError" THEN r
      ELSE IF r.v # <<>> THEN PageList(r.v) ELSE ALL

\* Lines 49-77
ParseString(s) ==
  IF upper(s) = <<"A", "L", "L">> THEN ALL
  ELSE LET selections == split(s, ",")
           r == Accumulate([i \in 1..Len(selections) |->
                              SelectionPages(selections[i])], <<>>)
       IN  IF r.t = "ValueError" THEN r
           ELSE IF r.v # <<>> THEN PageList(sorted_set(r.v)) ELSE ALL

parse_page_selection(pages_param) ==
  IF pages_param.t = "list" THEN ParseList(pages_param.v)
  ELSE IF pages_param.t = "str" THEN ParseString(pages_param.v)
  ELSE ALL

(***************************************************************************)
(* Library calls of read_file.                                             *)
(***************************************************************************)
B64Alphabet == {"Q", "U", "J", "D", "a"}

B64Pad == "="

NonAscii == {"e_acute"}

BinasciiError == [t |-> "binascii.Error", n |-> 0]

B64ValueError == [t |-> "ValueError", n |-> 0]

Decoded(n) == [t |-> "ok", n |-> n]

\* binascii.a2b_base64 in its default (non-strict) mode: characters outside
\* the alphabet are skipped, a complete pad sequence ends the input, and a
\* quad left open at the end is an error.  n counts the bytes produced.
RECURSIVE a2b_base64(_, _, _, _)
a2b_base64(s, quad_pos, pads, n) ==
  IF s = <<>>
    THEN IF quad_pos # 0 THEN BinasciiError ELSE Decoded(n)
  ELSE IF Head(s) = B64Pad
    THEN IF quad_pos >= 2 /\ quad_pos + pads + 1 >= 4
           THEN Decoded(n)
           ELSE a2b_base64(Tail(s), quad_pos,
                           IF quad_pos >= 2 THEN pads + 1 ELSE pads, n)
  ELSE IF Head(s) \notin B64Alphabet
    THEN a2b_base64(Tail(s), quad_pos, pads, n)
  ELSE IF quad_pos = 0
    THEN a2b_base64(Tail(s), 1, 0, n)
  ELSE a2b_base64(Tail(s), (quad_pos + 1) % 4, 0, n + 1)

\* base64.b64decode(data) of a str: the str is first encoded as ASCII.
b64decode(data) ==
  IF \E i \in 1..Len(data) : data[i] \in NonAscii
    THEN B64ValueError
    ELSE a2b_base64(data, 0, 0, 0)

\* sep.join(parts)
RECURSIVE join(_, _)
join(sep, parts) ==
  IF parts = <<>> THEN <<>>
  ELSE IF Len(parts) = 1 THEN parts[1]
  ELSE parts[1] \o sep \o join(sep, Tail(parts))

LowerMap == [e \in {".pdf", ".PDF", ".png", ".PNG", ".jpg", ".JPG", ".jpeg", ".docx"} |->
               CASE e = ".PDF" -> ".pdf" [] e = ".PNG" -> ".png"
                 [] e = ".JPG" -> ".jpg" [] OTHER -> e]

\* str.lower() on the extensions of the model
lower(ext) == LowerMap[ext]

ImageExts == {".png", ".jpg", ".jpeg"}

\* f"--- Page {page_num} ---"
Marker(page_num) == "--- Page " \o ToString(page_num) \o " ---"

\* f"--- Page {i} ---\n{page_text}\n\n" (lines 123 and 138)
PageChunk(page_num, page_text) ==
  <<Marker(page_num), "\n">> \o page_text \o <<"\n", "\n">>

\* valid_pages with the upper bound exclusive.
valid_pages_exclusive(pages, n) == SelectSeq(pages, LAMBDA p : 1 <= p /\ p < n)

\* Line 127: [p for p in selected_pages if 1 <= p <= total_pages]
valid_pages(pages, n) == SelectSeq(pages, LAMBDA p : 1 <= p /\ p <= n)

(***************************************************************************)
(* Responses.                                                              *)
(***************************************************************************)
NoResponse ==
  [status |-> 0, body |-> "none", content |-> <<>>, has_total |-> FALSE,
   total_pages |-> 0, detail |-> "none"]

\* return {"content": ...}
Content(text) ==
  [status |-> 200, body |-> "content", content |-> text, has_total |-> FALSE,
   total_pages |-> 0, detail |-> "none"]

\* Line 131: return {"content": "No valid pages selected.", "total_pages": n}
NoValidPages(n) ==
  [status |-> 200, body |-> "no_valid_pages", content |-> <<"No valid pages selected.">>,
   has_total |-> TRUE, total_pages |-> n, detail |-> "none"]

\* Line 161
Guidance ==
  [status |-> 200, body |-> "guidance",
   content |-> <<"Image files only have one page. Please use 'ALL' or '1' for page selection.">>,
   has_total |-> FALSE, total_pages |-> 0, detail |-> "none"]

HTTPException(status_code, detail) ==
  [status |-> status_code, body |-> "detail", content |-> <<>>, has_total |-> FALSE,
   total_pages |-> 0, detail |-> detail]

\* An exception that leaves read_file uncaught: the server answers 500.
Unhandled ==
  [status |-> 500, body |-> "Internal Server Error", content |-> <<>>,
   has_total |-> FALSE, total_pages |-> 0, detail |-> "none"]

\* Lines 143-145: except Exception catches whatever the try block raised,
\* the HTTPException of line 113 included, and raises a 500.
pdf_except(e) == HTTPException(500, "An error occurred while processing the PDF")

\* Lines 196-198: the same on the image path (HTTPExceptions of lines 168
\* and 184 included).
image_except(e) == HTTPException(500, "An error occurred while processing the image")

\* What the try block raised when it is not an HTTPException.
OtherError == [status |-> -1, body |-> "exception", content |-> <<>>,
               has_total |-> FALSE, total_pages |-> 0, detail |-> "none"]

(***************************************************************************)
(* The requests of the model.                                              *)
(***************************************************************************)
SeqsUpTo(S, n) == UNION {[1..k -> S] : k \in 0..n}

Str(chars) == [t |-> "str", v |-> chars]

List(atoms) == [t |-> "list", v |-> atoms]

IntAtom(n) == [t |-> "int", v |-> n]

OtherType == [t |-> "other", v |-> <<>>]

\* Requests of the handler: every short string and every short list.
ReqChars == {"1", "3", "-", ",", "sup2"}

ReqAtoms == {IntAtom(1), IntAtom(3), IntAtom(0), Str(<<"2">>), Str(<<"x">>)}

ReqPages ==
  {Str(s) : s \in SeqsUpTo(ReqChars, MaxReqStrLen)}
    \cup {List(l) : l \in SeqsUpTo(ReqAtoms, MaxReqListLen)}
    \cup {Str(<<"A", "L", "L">>), Str(<<"a", "l", "l">>)}

ReqExts == {".pdf", ".PDF", ".png", ".JPG", ".docx"}

\* "QUJD" decodes to three bytes, "!!!" to none, "QQ" has an open quad,
\* and a non-ASCII str cannot be encoded.
ReqData == {<<"Q", "U", "J", "D">>, <<"!", "!", "!">>, <<"Q", "Q">>, <<"e_acute">>}

Requests == [ext : ReqExts, data : ReqData, pages : ReqPages]

\* page.extract_text(): None or a text
ExtractTexts == {<<"None">>, <<"t">>}

\* ocr_reader.readtext(path, detail=0): a list of fragments
Fragments == {<<>>, <<"t">>, <<" ">>}

OcrResults == SeqsUpTo(Fragments, MaxFragments)

(***************************************************************************)
(* read_file, src/so_api.py lines 83-208.                                  *)
(***************************************************************************)
Init ==
  /\ pc = "idle"
  /\ file_data = [ext |-> ".pdf", data |-> <<>>, pages |-> Str(<<"A", "L", "L">>)]
  /\ selected_pages = ALL
  /\ temp_file_path = "None"
  /\ file_exists = FALSE
  /\ removes = 0
  /\ total_pages = -1
  /\ todo = <<>>
  /\ text_content = <<>>
  /\ text_results = <<>>
  /\ calls = <<>>
  /\ extracted = <<>>
  /\ raised = "none"
  /\ response = NoResponse

\* The request arrives (line 84).
Receive ==
  /\ pc = "idle"
  /\ \E req \in Requests : file_data' = req
  /\ pc' = "parse"
  /\ UNCHANGED <<selected_pages, temp_file_path, file_exists, removes, total_pages,
                 todo, text_content, text_results, calls, extracted, raised, response>>

\* Line 88, outside every try block.
Parse ==
  /\ pc = "parse"
  /\ selected_pages' = parse_page_selection(file_data.pages)
  /\ IF selected_pages'.t = "ValueError"
       THEN /\ raised' = "parse_page_selection"
            /\ response' = Unhandled
            /\ pc' = "done"
       ELSE /\ pc' = "dispatch"
            /\ UNCHANGED <<raised, response>>
  /\ UNCHANGED <<file_data, temp_file_path, file_exists, removes, total_pages, todo,
                 text_content, text_results, calls, extracted>>

\* Lines 91, 153 and 206-208.
Dispatch ==
  /\ pc = "dispatch"
  /\ IF file_data.ext = ".pdf"
       THEN pc' = "pdf_decode" /\ UNCHANGED <<raised, response>>
       ELSE IF lower(file_data.ext) \in ImageExts
              THEN pc' = "img_check" /\ UNCHANGED <<raised, response>>
              ELSE /\ raised' = "extension"
                   /\ response' = HTTPException(400,
                        "Invalid file extension. Supported extensions are '.pdf', '.png', '.jpg', '.jpeg'.")
                   /\ pc' = "done"
  /\ UNCHANGED <<file_data, selected_pages, temp_file_path, file_exists, removes,
                 total_pages, todo, text_content, text_results, calls, extracted>>

\* The try block on the PDF path raised e at `site` (lines 143-145).
PdfRaise(site, e) ==
  /\ raised' = site
  /\ response' = pdf_except(e)
  /\ pc' = "pdf_finally"

\* Line 98
PdfDecode ==
  /\ pc = "pdf_decode"
  /\ calls' = Append(calls, "b64decode")
  /\ IF b64decode(file_data.data).t = "ok"
       THEN pc' = "pdf_create" /\ UNCHANGED <<raised, response>>
       ELSE PdfRaise(b64decode(file_data.data).t, OtherError)
  /\ UNCHANGED <<file_data, selected_pages, temp_file_path, file_exists, removes,
                 total_pages, todo, text_content, text_results, extracted>>

\* Line 101: NamedTemporaryFile(delete=False) creates the file or fails.
PdfCreate ==
  /\ pc = "pdf_create"
  /\ calls' = Append(calls, "NamedTemporaryFile")
  /\ \/ file_exists' = TRUE /\ pc' = "pdf_write" /\ UNCHANGED <<raised, response>>
     \/ PdfRaise("NamedTemporaryFile", OtherError) /\ UNCHANGED file_exists
  /\ UNCHANGED <<file_data, selected_pages, temp_file_path, removes, total_pages,
                 todo, text_content, text_results, extracted>>

\* Lines 103-105: write, flush, and only then temp_file_path = temp_file.name.
\* A failing write leaves the with block (the file is closed, not deleted)
\* with temp_file_path still None.
PdfWrite ==
  /\ pc = "pdf_write"
  /\ calls' = Append(calls, "write")
  /\ \/ temp_file_path' = "path" /\ pc' = "pdf_reader" /\ UNCHANGED <<raised, response>>
     \/ PdfRaise("write", OtherError) /\ UNCHANGED temp_file_path
  /\ UNCHANGED <<file_data, selected_pages, file_exists, removes, total_pages, todo,
                 text_content, text_results, extracted>>

\* Lines 109-113: PdfReader(temp_file_path); a failure becomes
\* HTTPException(400), raised inside the outer try.  An empty file is never
\* a PDF.
PdfOpen ==
  /\ pc = "pdf_reader"
  /\ calls' = Append(calls, "PdfReader")
  /\ \/ /\ b64decode(file_data.data).n > 0
        /\ pc' = "pdf_select"
        /\ UNCHANGED <<raised, response>>
     \/ PdfRaise("PdfReader",
                 HTTPException(400, "Failed to read the PDF file. It might be corrupted."))
  /\ UNCHANGED <<file_data, selected_pages, temp_file_path, file_exists, removes,
                 total_pages, todo, text_content, text_results, extracted>>

\* Lines 115-133: len(pdf_reader.pages) is n or fails; the pages to visit.
PdfSelect ==
  /\ pc = "pdf_select"
  /\ calls' = Append(calls, "len(pages)")
  /\ \/ \E n \in 0..MaxPages :
          /\ total_pages' = n
          /\ IF selected_pages = ALL
               THEN /\ todo' = [i \in 1..n |-> i]
                    /\ pc' = "pdf_extract"
                    /\ UNCHANGED <<raised, response>>
               ELSE IF valid_pages(selected_pages.v, n) = <<>>
                      THEN /\ response' = NoValidPages(n)
                           /\ pc' = "pdf_finally"
                           /\ UNCHANGED <<raised, todo>>
                      ELSE /\ todo' = valid_pages(selected_pages.v, n)
                           /\ pc' = "pdf_extract"
                           /\ UNCHANGED <<raised, response>>
     \/ PdfRaise("len(pages)", OtherError) /\ UNCHANGED <<total_pages, todo>>
  /\ UNCHANGED <<file_data, selected_pages, temp_file_path, file_exists, removes,
                 text_content, text_results, extracted>>

\* Lines 121-123 and 134-138: one iteration of the extraction loop.
PdfExtract ==
  /\ pc = "pdf_extract"
  /\ todo # <<>>
  /\ extracted' = Append(extracted, Head(todo))
  /\ \/ \E page_text \in ExtractTexts :
          /\ text_content' = text_content \o
               PageChunk(Head(todo), IF page_text = <<"None">> THEN <<>> ELSE page_text)
          /\ todo' = Tail(todo)
          /\ UNCHANGED <<pc, raised, response>>
     \/ PdfRaise("extract_text", OtherError) /\ UNCHANGED <<text_content, todo>>
  /\ UNCHANGED <<file_data, selected_pages, temp_file_path, file_exists, removes,
                 total_pages, text_results, calls>>

\* Lines 140-141
PdfReturn ==
  /\ pc = "pdf_extract"
  /\ todo = <<>>
  /\ response' = Content(strip(text_content))
  /\ pc' = "pdf_finally"
  /\ UNCHANGED <<file_data, selected_pages, temp_file_path, file_exists, removes,
                 total_pages, todo, text_content, text_results, calls, extracted, raised>>

\* Lines 147-151 and 200-204: if temp_file_path and os.path.exists(...)
Cleanup ==
  IF temp_file_path # "None" /\ file_exists
    THEN file_exists' = FALSE /\ removes' = removes + 1
    ELSE UNCHANGED <<file_exists, removes>>

PdfFinally ==
  /\ pc = "pdf_finally"
  /\ Cleanup
  /\ pc' = "done"
  /\ UNCHANGED <<file_data, selected_pages, temp_file_path, total_pages, todo,
                 text_content, text_results, calls, extracted, raised, response>>

\* The try block on the image path raised e at `site` (lines 196-198).
ImageRaise(site, e) ==
  /\ raised' = site
  /\ response' = image_except(e)
  /\ pc' = "img_finally"

\* only_other_pages without the test for page 1.
any_page_list(selected) == selected # ALL /\ selected.t = "list"

\* Line 159: selected_pages != "ALL" and (isinstance(selected_pages, list)
\* and 1 not in selected_pages)
only_other_pages(selected) ==
  /\ selected # ALL
  /\ selected.t = "list"
  /\ \A i \in 1..Len(selected.v) : selected.v[i] # 1

\* Lines 159-161
ImageCheck ==
  /\ pc = "img_check"
  /\ IF only_other_pages(selected_pages)
       THEN response' = Guidance /\ pc' = "img_finally"
       ELSE pc' = "img_decode" /\ UNCHANGED response
  /\ UNCHANGED <<file_data, selected_pages, temp_file_path, file_exists, removes,
                 total_pages, todo, text_content, text_results, calls, extracted, raised>>

\* Lines 164-168: binascii.Error becomes HTTPException(400), raised inside
\* the outer try; any other exception reaches the outer except directly.
ImageDecode ==
  /\ pc = "img_decode"
  /\ calls' = Append(calls, "b64decode")
  /\ IF b64decode(file_data.data).t = "ok"
       THEN pc' = "img_create" /\ UNCHANGED <<raised, response>>
       ELSE IF b64decode(file_data.data).t = "binascii.Error"
              THEN ImageRaise("binascii.Error", HTTPException(400, "Invalid base64 data."))
              ELSE ImageRaise(b64decode(file_data.data).t, OtherError)
  /\ UNCHANGED <<file_data, selected_pages, temp_file_path, file_exists, removes,
                 total_pages, todo, text_content, text_results, extracted>>

\* Line 171
ImageCreate ==
  /\ pc = "img_create"
  /\ calls' = Append(calls, "NamedTemporaryFile")
  /\ \/ file_exists' = TRUE /\ pc' = "img_write" /\ UNCHANGED <<raised, response>>
     \/ ImageRaise("NamedTemporaryFile", OtherError) /\ UNCHANGED file_exists
  /\ UNCHANGED <<file_data, selected_pages, temp_file_path, removes, total_pages,
                 todo, text_content, text_results, extracted>>

\* Lines 173-175
ImageWrite ==
  /\ pc = "img_write"
  /\ calls' = Append(calls, "write")
  /\ \/ temp_file_path' = "path" /\ pc' = "img_verify" /\ UNCHANGED <<raised, response>>
     \/ ImageRaise("write", OtherError) /\ UNCHANGED temp_file_path
  /\ UNCHANGED <<file_data, selected_pages, file_exists, removes, total_pages, todo,
                 text_content, text_results, extracted>>

\* Lines 177-184: Image.open and image.verify(); UnidentifiedImageError
\* becomes HTTPException(400), raised inside the outer try.  An empty file
\* is never an image.
ImageVerify ==
  /\ pc = "img_verify"
  /\ calls' = Append(calls, "Image.verify")
  /\ \/ /\ b64decode(file_data.data).n > 0
        /\ pc' = "img_ocr"
        /\ UNCHANGED <<raised, response>>
     \/ ImageRaise("UnidentifiedImageError", HTTPException(400, "Invalid image file."))
     \/ /\ b64decode(file_data.data).n > 0
        /\ ImageRaise("Image.verify", OtherError)
  /\ UNCHANGED <<file_data, selected_pages, temp_file_path, file_exists, removes,
                 total_pages, todo, text_content, text_results, extracted>>

\* Lines 186-194
ImageOcr ==
  /\ pc = "img_ocr"
  /\ calls' = Append(calls, "readtext")
  /\ \/ \E r \in OcrResults :
          /\ text_results' = r
          /\ text_content' = join(<<" ">>, r)
          /\ response' = Content(strip(text_content'))
          /\ pc' = "img_finally"
          /\ UNCHANGED raised
     \/ ImageRaise("readtext", OtherError) /\ UNCHANGED <<text_results, text_content>>
  /\ UNCHANGED <<file_data, selected_pages, temp_file_path, file_exists, removes,
                 total_pages, todo, extracted>>

ImageFinally ==
  /\ pc = "img_finally"
  /\ Cleanup
  /\ pc' = "done"
  /\ UNCHANGED <<file_data, selected_pages, temp_file_path, total_pages, todo,
                 text_content, text_results, calls, extracted, raised, response>>

Next ==
  \/ Receive
  \/ Parse
  \/ Dispatch
  \/ PdfDecode
  \/ PdfCreate
  \/ PdfWrite
  \/ PdfOpen
  \/ PdfSelect
  \/ PdfExtract
  \/ PdfReturn
  \/ PdfFinally
  \/ ImageCheck
  \/ ImageDecode
  \/ ImageCreate
  \/ ImageWrite
  \/ ImageVerify
  \/ ImageOcr
  \/ ImageFinally

Spec == Init /\ [][Next]_vars

(***************************************************************************)
(* parse_page_selection on its own: the input is drawn from every string   *)
(* and every list up to the bounds, and from the examples of the           *)
(* documentation; the one step is the call of line 88.                     *)
(***************************************************************************)
ParseChars == {"0", "1", "2", ",", "-", " ", "x", "sup2"}

ParseAtoms ==
  {IntAtom(0), IntAtom(1), IntAtom(2), Str(<<"1">>), Str(<<"x">>), Str(<<"sup2">>),
   OtherType}

Examples ==
  {Str(<<"A", "L", "L">>), Str(<<"a", "l", "l">>), Str(<<"A", "l", "L">>),
   Str(<<"2", "-", "5">>), Str(<<"2", ",", "5", ",", "7">>),
   Str(<<"1", "-", "3", ",", "5", ",", "7", "-", "9">>),
   Str(<<"5", "-", "2">>),
   Str(<<"a", "b", "c", ",", "2", ",", "x", "y", "z">>),
   Str(<<"+", "1", "-", "3">>), Str(<<"1", "_", "0">>),
   Str(<<"1", "-", "2", "-", "3">>),
   List(<<IntAtom(1), Str(<<"3">>), Str(<<"x">>), IntAtom(5)>>),
   List(<<IntAtom(3), IntAtom(1), IntAtom(1)>>),
   OtherType}

ParseInputs ==
  {Str(s) : s \in SeqsUpTo(ParseChars, MaxStrLen)}
    \cup {List(l) : l \in SeqsUpTo(ParseAtoms, MaxListLen)}
    \cup Examples

InitParse ==
  /\ pc = "parse"
  /\ file_data \in [ext : {".pdf"}, data : {<<"Q", "U", "J", "D">>}, pages : ParseInputs]
  /\ selected_pages = ALL
  /\ temp_file_path = "None"
  /\ file_exists = FALSE
  /\ removes = 0
  /\ total_pages = -1
  /\ todo = <<>>
  /\ text_content = <<>>
  /\ text_results = <<>>
  /\ calls = <<>>
  /\ extracted = <<>>
  /\ raised = "none"
  /\ response = NoResponse

NextParse == Parse

SpecParse == InitParse /\ [][NextParse]_vars

(***************************************************************************)
(* Vocabulary of the properties.                                           *)
(***************************************************************************)
Done == pc = "done"

\* parse_page_selection has been called (the handler is past line 88).
Parsed == pc \notin {"idle", "parse"}

Elems(q) == {q[i] : i \in 1..Len(q)}

StrictlyAscending(q) == \A i \in 1..(Len(q) - 1) : q[i] < q[i + 1]

Count(q, x) == Len(SelectSeq(q, LAMBDA y : y = x))

IsPdf == file_data.ext = ".pdf"

IsImage == file_data.ext \in {".png", ".PNG", ".jpg", ".JPG", ".jpeg"}

Failed == response.status \notin {0, 200}

\* The markers of a content, in order.
Markers(content) ==
  SelectSeq(content, LAMBDA tok : \E p \in 1..(MaxPages + 1) : tok = Marker(p))

\* The requested pages that exist in the document, ascending, once each.
RequestedInRange ==
  SortedSeq({p \in Elems(selected_pages.v) : 1 <= p /\ p <= total_pages})

----------------------------------------------------------------------------
\* C1 (as claimed): a failure response is 400 when the cause is an
\* unsupported extension, a base64 decode failure, a PdfReader construction
\* failure or a failed image verification, and 500 for every other failure.
C1_StatusByCause ==
  (Done /\ Failed) =>
    IF raised \in {"extension", "binascii.Error", "ValueError", "PdfReader",
                   "UnidentifiedImageError"}
      THEN response.status = 400
      ELSE response.status = 500

\* C2 (as claimed): when the handler returns, no temporary file of the
\* request is left on disk and it was deleted at most once, on every exit
\* path, a failed write included.
C2_NoTempFileLeft == Done => (~file_exists /\ removes <= 1)

\* C3 (as claimed): parse_page_selection returns "ALL" or a non-empty,
\* strictly ascending list of integers >= 1.
C3_NormalizedResult ==
  Parsed =>
    \/ selected_pages = ALL
    \/ /\ selected_pages.t = "list"
       /\ selected_pages.v # <<>>
       /\ StrictlyAscending(selected_pages.v)
       /\ \A p \in Elems(selected_pages.v) : p >= 1

\* The grammar C4 states: what one trimmed segment contributes.
AllDigits(s) == s # <<>> /\ \A i \in 1..Len(s) : s[i] \in AsciiDigit

GrammarSegment(segment) ==
  LET seg == strip(segment)
      k == find(seg, "-")
      lo == SubSeq(seg, 1, k - 1)
      hi == SubSeq(seg, k + 1, Len(seg))
  IN  IF AllDigits(seg) THEN {DecimalValue(seg)}
      ELSE IF k > 0 /\ AllDigits(lo) /\ AllDigits(hi)
                /\ DecimalValue(lo) <= DecimalValue(hi)
             THEN DecimalValue(lo)..DecimalValue(hi)
             ELSE {}

GrammarResult(s) ==
  LET segs == split(s, ",")
      pages == UNION {GrammarSegment(segs[i]) : i \in 1..Len(segs)}
  IN  IF pages = {} THEN ALL ELSE PageList(SortedSeq(pages))

\* C4 (as claimed): for a string other than "ALL" in any case, the result is
\* the sorted, deduplicated union of what the grammar's segments contribute,
\* or "ALL" when that union is empty.
C4_StringGrammar ==
  (Parsed /\ file_data.pages.t = "str"
     /\ upper(file_data.pages.v) # <<"A", "L", "L">>)
    => selected_pages = GrammarResult(file_data.pages.v)

\* C5 (as claimed): parse_page_selection never raises.
C5_NeverRaises == Parsed => selected_pages.t # "ValueError"

\* C6 (as claimed): on a successful PDF response for a selection that is not
\* ALL and has a page in range, extract_text was invoked exactly once for
\* each requested page in range and no other, in strictly ascending order,
\* and the content carries exactly those markers in that order.
C6_ExtractionOrder ==
  (Done /\ IsPdf /\ response.status = 200 /\ selected_pages.t = "list"
     /\ RequestedInRange # <<>>)
    => /\ extracted = RequestedInRange
       /\ Markers(response.content)
            = [i \in 1..Len(RequestedInRange) |-> Marker(RequestedInRange[i])]

\* The selection is a list none of whose pages exists in the document.
NoPageInRange ==
  /\ total_pages >= 0
  /\ selected_pages.t = "list"
  /\ \A p \in Elems(selected_pages.v) : ~(1 <= p /\ p <= total_pages)

\* C7: a PDF request whose selection is a list with no page in range gets
\* the no-valid-pages result with total_pages = the page count and no
\* extract_text call; no other successful response has total_pages.
C7_NoValidPages ==
  Done =>
    /\ (IsPdf /\ NoPageInRange)
         => /\ response.status = 200
            /\ response.body = "no_valid_pages"
            /\ response.has_total
            /\ response.total_pages = total_pages
            /\ extracted = <<>>
    /\ (response.status = 200 /\ ~(IsPdf /\ NoPageInRange))
         => ~response.has_total

C7_Witness ==
  /\ Done
  /\ IsPdf
  /\ NoPageInRange
  /\ total_pages = MaxPages
  /\ response.body = "no_valid_pages"

\* Decoding, staging and verifying the image raised nothing.
Verified == raised \in {"none", "readtext"}

SkipsPageOne ==
  selected_pages.t = "list" /\ 1 \notin Elems(selected_pages.v)

\* C8 (as claimed): an image request whose selection is a list without page
\* 1 gets the guidance message and readtext is never called; otherwise, when
\* the payload decodes and verifies, readtext is called exactly once and the
\* content is the fragments joined by single spaces.
C8_ContentIsJoin ==
  (Done /\ IsImage /\ selected_pages.t # "ValueError") =>
    /\ SkipsPageOne
         => /\ response = Guidance
            /\ Count(calls, "readtext") = 0
    /\ (~SkipsPageOne /\ Verified)
         => /\ Count(calls, "readtext") = 1
            /\ raised = "none"
                 => /\ response.status = 200
                    /\ response.body = "content"
                    /\ response.content = join(<<" ">>, text_results)

\* C8 (amended): an image request whose selection is a list without page 1
\* gets the guidance message and readtext is never called; otherwise, when
\* decoding, staging and verification raise nothing, readtext is called
\* exactly once and, when it returns, the content is the fragments joined by
\* single spaces, stripped of leading and trailing whitespace.
C8_ImagePath ==
  (Done /\ IsImage /\ selected_pages.t # "ValueError") =>
    /\ SkipsPageOne
         => /\ response = Guidance
            /\ Count(calls, "readtext") = 0
    /\ (~SkipsPageOne /\ Verified)
         => /\ Count(calls, "readtext") = 1
            /\ raised = "none"
                 => /\ response.status = 200
                    /\ response.body = "content"
                    /\ response.content = strip(join(<<" ">>, text_results))

C8_Witness ==
  /\ Done
  /\ IsImage
  /\ ~SkipsPageOne
  /\ Verified
  /\ response.status = 200
  /\ Len(text_results) = 2
  /\ response.content # join(<<" ">>, text_results)

\* C9 (as claimed): a request with an unsupported extension is answered 400
\* with the detail naming the supported extensions, and nothing was decoded,
\* staged or extracted.
C9_UnsupportedExtension ==
  (Done /\ ~IsPdf /\ ~IsImage)
    => /\ response.status = 400
       /\ response.detail
            = "Invalid file extension. Supported extensions are '.pdf', '.png', '.jpg', '.jpeg'."
       /\ calls = <<>>
       /\ ~file_exists
       /\ extracted = <<>>

\* C10 (as claimed): a request with a supported extension whose data is not
\* decodable base64 never ends in a success response.
C10_UndecodableNeverSucceeds ==
  (Done /\ (IsPdf \/ IsImage) /\ b64decode(file_data.data).t # "ok")
    => response.status # 200

====
